---- MODULE Spec2Model ----
(***************************************************************************)
(* Model of the authentication subsystem of the sales-management REST API: *)
(* the authenticate and refresh handlers, the verifyJWT preHandler and the *)
(* route table registered at start-up.  Time is counted in minutes.        *)
(***************************************************************************)
EXTENDS Integers, Sequences, FiniteSets, TLC

VARIABLES
    users,        \* rows of the users table
    PRIVATE_PEM,  \* process.env.PRIVATE_KEY, read once at start-up
    PUBLIC_PEM,   \* process.env.PUBLIC_KEY, read once at start-up
    now,          \* the clock, in minutes
    ticks,        \* number of clock advances so far
    jar,          \* the cookies the client holds
    req,          \* the request served last
    reply,        \* the reply to it
    user,         \* request.user of that request
    ran,          \* the route handler that ran for it, if any
    queried,      \* whether serving it issued a query to the store
    authAt,       \* time of the last successful authenticate, -1 if none
    calls,        \* the refresh calls in flight, each with its locals
    statement     \* the UPDATE statement an update handler has built

vars == <<users, PRIVATE_PEM, PUBLIC_PEM, now, ticks, jar, req, reply, user, ran, queried, authAt, calls, statement>>

(* ------------------------------ bounds --------------------------------- *)

\* number of clock advances explored
MaxTicks == 3

(* --------------------------- configuration ----------------------------- *)

\* "15m" and "30d" as jose resolves them, in minutes
ACCESS_TOKEN_EXPIRATION == 15
REFRESH_TOKEN_EXPIRATION == 43200

\* 15 * 60 * 1000 and 30 * 24 * 60 * 60 * 1000, counted in thousands
\* (the second does not fit the 32-bit integers of TLC)
ACCESS_TOKEN_EXPIRATION_MS == 15 * 60

\* a refresh cookie that lives 7 days, counted in thousands
REFRESH_TOKEN_EXPIRATION_MS_7d == 7 * 24 * 60 * 60
REFRESH_TOKEN_EXPIRATION_MS == 30 * 24 * 60 * 60

\* process.env.PRIVATE_KEY / process.env.PUBLIC_KEY: undefined, a PEM of the
\* key pair, or a string that is no PEM
NoPem == "undefined"
PrivatePems == {NoPem, "PRIVATE_KEY_1", "NOT_A_PEM"}
PublicPems == {NoPem, "PUBLIC_KEY_1", "NOT_A_PEM"}

\* jose.importPKCS8(pem, "RS256") / jose.importSPKI(pem, "RS256") succeed
\* on a PEM and throw on anything else
importPKCS8(pem) == pem = "PRIVATE_KEY_1"
importSPKI(pem) == pem = "PUBLIC_KEY_1"

\* the public half of a private key (RS256 key pair)
PublicOf(privatePem) == IF privatePem = "PRIVATE_KEY_1" THEN "PUBLIC_KEY_1" ELSE "PUBLIC_KEY_OTHER"

\* amounts by which the clock advances between requests
TimeSteps == {5, 10, REFRESH_TOKEN_EXPIRATION - 5}

(* ------------------------------ strings -------------------------------- *)

UpperChars == {"A", "B", "P", "S", "X"}
LowerChars == {"a", "b", "c", "d", "e", "i", "n", "o", "r", "s", "t", "w", "x"}
DigitChars == {"0", "1", "9"}

\* /re/.test(s) for a one-character class
HasChar(s, class) == \E i \in 1..Len(s) : s[i] \in class

\* z.string().min(8).max(100).regex(/[A-Z]/).regex(/[a-z]/).regex(/[0-9]/)
PasswordOk(p) ==
    /\ Len(p) >= 8
    /\ Len(p) <= 100
    /\ HasChar(p, UpperChars)
    /\ HasChar(p, LowerChars)
    /\ HasChar(p, DigitChars)

\* positions of a character in a string
Positions(s, c) == {i \in 1..Len(s) : s[i] = c}

\* z.email(): local@label(.label)*.tld, no leading dot, no "..",
\* local part ends in a word character, tld of two or more letters
EmailOk(e) ==
    /\ Cardinality(Positions(e, "@")) = 1
    /\ LET at == CHOOSE i \in Positions(e, "@") : TRUE
           local == SubSeq(e, 1, at - 1)
           domain == SubSeq(e, at + 1, Len(e))
           alnum == UpperChars \cup LowerChars \cup DigitChars
           dots == Positions(domain, ".")
       IN  /\ Len(local) >= 1
           /\ local[1] # "."
           /\ \A i \in 1..Len(local) : local[i] \in alnum \cup {".", "_", "'", "+", "-"}
           /\ local[Len(local)] \in alnum \cup {"_", "+", "-"}
           /\ \A i \in 1..(Len(e) - 1) : ~(e[i] = "." /\ e[i + 1] = ".")
           /\ dots # {}
           /\ Len(domain) >= 1
           /\ domain[1] \in alnum
           /\ \A i \in 1..Len(domain) : domain[i] \in alnum \cup {"-", "."}
           /\ \A i \in dots : i < Len(domain) /\ domain[i + 1] \in alnum
           /\ LET last == CHOOSE i \in dots : \A j \in dots : j <= i
              IN  /\ Len(domain) - last >= 2
                  /\ \A i \in (last + 1)..Len(domain) : domain[i] \in UpperChars \cup LowerChars

\* authUserSchema.parse(body): the parsed value or a thrown ZodError
authUserSchema(body) ==
    IF EmailOk(body.email) /\ PasswordOk(body.password)
    THEN [success |-> TRUE, data |-> body]
    ELSE [success |-> FALSE, data |-> body]

(* ------------------------------- inputs -------------------------------- *)

AnnEmail == <<"a", "@", "x", ".", "i", "o">>
BobEmail == <<"b", "@", "x", ".", "i", "o">>
EveEmail == <<"e", "@", "x", ".", "i", "o">>
BadEmail == <<"a", "x", ".", "i", "o">>
DotEmail == <<"a", "@", "x", ".", ".", "i", "o">>

AnnPassword == <<"P", "a", "s", "s", "w", "0", "r", "d">>
BobPassword == <<"S", "e", "c", "r", "e", "t", "9", "9">>
ShortPassword == <<"P", "a", "s", "1">>
NoDigitPassword == <<"P", "a", "s", "s", "w", "o", "r", "d">>
NoUpperPassword == <<"p", "a", "s", "s", "w", "0", "r", "d">>
NoLowerPassword == <<"P", "A", "S", "S", "X", "0", "1", "9">>
LongPassword == [i \in 1..101 |-> IF i = 1 THEN "P" ELSE IF i = 2 THEN "0" ELSE "a"]

Emails == {AnnEmail, BobEmail, EveEmail, BadEmail, DotEmail}
Passwords == {AnnPassword, BobPassword, ShortPassword, NoDigitPassword,
              NoUpperPassword, NoLowerPassword, LongPassword}
Bodies == [email : Emails, password : Passwords]

(* ------------------------------ the store ------------------------------ *)

\* a stored password column: a bcrypt hash of a plaintext
BcryptHash(p) == [bcrypt |-> p]

\* bcrypt.compare(password, stored)
BcryptCompare(password, stored) == stored = BcryptHash(password)

Ann == [id |-> "1", first_name |-> "Ann", last_name |-> "Lee",
        email |-> AnnEmail, password |-> BcryptHash(AnnPassword)]
Bob == [id |-> "2", first_name |-> "Bob", last_name |-> "Ray",
        email |-> BobEmail, password |-> BcryptHash(BobPassword)]
SeedRows == {Ann, Bob}

\* SELECT id, first_name, last_name, email, password FROM users WHERE email = $1
SelectByEmail(table, email) == {r \in table : r.email = email}

\* request.params.id of the sample requests: a stored user's and nobody's
Ids == {"1", "9"}

\* bodies of PATCH /users/:id: the fields given, and their values
EmptyBody ==
    [given |-> {}, first_name |-> "", last_name |-> "", email |-> <<>>, password |-> <<>>]
UpdateBodies ==
    {[given |-> {"first_name"}, first_name |-> "Zed", last_name |-> "", email |-> <<>>,
      password |-> <<>>],
     EmptyBody}

\* the columns an update handler may set, in the order it tests them
UserColumns == <<"first_name", "last_name", "email", "password">>
CustomerColumns == <<"first_name", "last_name", "email", "phone">>
ProductColumns == <<"name", "description", "price", "stock">>

\* before the first push: no SET entry, no value, paramCount = 1
NoPushes == [updates |-> <<>>, values |-> <<>>, paramCount |-> 1]

\* a push that increments paramCount before it writes the placeholder
pushField_preIncrement(acc, column, value) ==
    [updates |-> Append(acc.updates, [column |-> column, param |-> acc.paramCount + 1]),
     values |-> Append(acc.values, value),
     paramCount |-> acc.paramCount + 1]

\* updates.push(`column = $${paramCount++}`); values.push(value)
pushField(acc, column, value) ==
    [updates |-> Append(acc.updates, [column |-> column, param |-> acc.paramCount]),
     values |-> Append(acc.values, value),
     paramCount |-> acc.paramCount + 1]

\* the ifs of an update handler, one column after the other: a column is
\* pushed when the body gives it
RECURSIVE pushGiven(_, _, _, _)
pushGiven(columns, body, k, acc) ==
    IF k > Len(columns) THEN acc
    ELSE IF columns[k] \in body.given
    THEN pushGiven(columns, body, k + 1, pushField(acc, columns[k], body[columns[k]]))
    ELSE pushGiven(columns, body, k + 1, acc)

\* the statement and the value array an update handler sends to the store:
\* UPDATE <table> SET <updates> WHERE id = $<where>; a SET entry with
\* param 0 takes no placeholder (updated_at = NOW())
updateStatement(table, columns, stamped, body, id) ==
    LET pushed == pushGiven(columns, body, 1, NoPushes)
    IN  [table |-> table,
         updates |-> IF stamped
                     THEN Append(pushed.updates, [column |-> "updated_at", param |-> 0])
                     ELSE pushed.updates,
         values |-> Append(pushed.values, id),
         where |-> pushed.paramCount]

\* no statement built
NoStatement == [table |-> "none", updates |-> <<>>, values |-> <<>>, where |-> 0]

\* a password column that is written hashed
Stored_hashed(column, value) ==
    IF column = "password" THEN [bcrypt |-> value] ELSE value

\* what a text column holds after a value is written to it: the password
\* column holds the text as given, which is no bcrypt hash
Stored(column, value) == IF column = "password" THEN [plain |-> value] ELSE value

\* the store runs an UPDATE statement on a table
Execute(table, stmt) ==
    {IF r.id # stmt.values[stmt.where] THEN r
     ELSE [f \in DOMAIN r |->
              IF \E i \in DOMAIN stmt.updates :
                     stmt.updates[i].column = f /\ stmt.updates[i].param > 0
              THEN LET u == stmt.updates[CHOOSE i \in DOMAIN stmt.updates :
                                             stmt.updates[i].column = f]
                   IN  Stored(f, stmt.values[u.param])
              ELSE r[f]] : r \in table}

\* id SERIAL PRIMARY KEY: the id the sequence hands to the next insert
UserSerial == <<"1", "2", "3", "4">>
nextval(table) ==
    UserSerial[CHOOSE k \in DOMAIN UserSerial :
                  /\ \A r \in table : r.id # UserSerial[k]
                  /\ \A l \in 1..(k - 1) : \E r \in table : r.id = UserSerial[l]]

\* INSERT INTO users (first_name, last_name, email, password) VALUES ($1, $2,
\* $3, $4) RETURNING id, first_name, last_name, email: the table afterwards
Insert(table, body) ==
    table \cup {[id |-> nextval(table), first_name |-> body.first_name,
                 last_name |-> body.last_name, email |-> body.email,
                 password |-> Stored("password", body.password)]}

\* UPDATE users SET <given fields> WHERE id = $n RETURNING id, first_name,
\* last_name, email: the table afterwards
UpdateById(table, id, body) ==
    Execute(table, updateStatement("users", UserColumns, FALSE, body, id))

\* DELETE FROM users WHERE id = $1 RETURNING id: the table afterwards
DeleteById(table, id) == {r \in table : r.id # id}

\* request.server.pg: the pool, which reaches the store or does not
Pg(up, table) == [up |-> up, rows |-> table]

(* ------------------------------- tokens -------------------------------- *)

\* request.cookies.<name>: undefined, "", a string that is no JWT, or a JWT
NoCookie == [kind |-> "absent"]
EmptyCookie == [kind |-> "empty"]
Malformed == [kind |-> "malformed"]

\* !cookie
Falsy(c) == c.kind \in {"absent", "empty"}

\* the RS256 signature of a claims set under a private key
Signature(claims, privatePem) == [key |-> privatePem, over |-> claims]

\* a signer that keeps the exp a payload already carries
SignJWT_keepExp(payload, d, privatePem, t) ==
    LET claims == [f \in (DOMAIN payload) \cup {"exp"} |->
                      IF f \in DOMAIN payload THEN payload[f] ELSE t + d]
    IN  [kind |-> "jwt", claims |-> claims, sig |-> Signature(claims, privatePem)]

\* a signer that signs the payload as it was before the expiry was set
SignJWT_signsPayload(payload, d, privatePem, t) ==
    LET claims == [f \in (DOMAIN payload) \cup {"exp"} |->
                      IF f = "exp" THEN t + d ELSE payload[f]]
    IN  [kind |-> "jwt", claims |-> claims, sig |-> Signature(payload, privatePem)]

\* new jose.SignJWT(payload).setProtectedHeader({alg}).setExpirationTime(d).sign(key)
\* at time t: the expiry replaces any exp the payload already carries
SignJWT(payload, d, privatePem, t) ==
    LET claims == [f \in (DOMAIN payload) \cup {"exp"} |->
                      IF f = "exp" THEN t + d ELSE payload[f]]
    IN  [kind |-> "jwt", claims |-> claims, sig |-> Signature(claims, privatePem)]

\* jose.jwtVerify(token, publicKey) at time t: the signature is checked
\* before the claims, and a token is expired once exp <= now
jwtVerify(token, publicPem, t) ==
    IF token.kind # "jwt"
    THEN [ok |-> FALSE, error |-> "JWSInvalid"]
    ELSE IF ~(PublicOf(token.sig.key) = publicPem /\ token.sig.over = token.claims)
    THEN [ok |-> FALSE, error |-> "JWSSignatureVerificationFailed"]
    ELSE IF token.claims["exp"] <= t
    THEN [ok |-> FALSE, error |-> "JWTExpired"]
    ELSE [ok |-> TRUE, payload |-> token.claims]

(* ------------------------------- replies ------------------------------- *)

NoReply == [sent |-> FALSE, status |-> 0, body |-> [none |-> "none"], cookies |-> {}]
NoUser == [none |-> "none"]
NoHandler == "none"

\* reply.status(status).send(body), with the cookies set so far
Send(status, body, cookies) ==
    [sent |-> TRUE, status |-> status, body |-> body, cookies |-> cookies]

\* reply.cookie(name, value, {httpOnly, secure, sameSite, path, maxAge})
Cookie(name, value, maxAge) ==
    [name |-> name, value |-> value, httpOnly |-> TRUE, secure |-> TRUE,
     sameSite |-> "none", path |-> "/", maxAge |-> maxAge]

\* an error thrown out of a handler reaches the server's default error
\* handler: the error carries no status code, so the reply is a 500
Thrown(error, cookies) ==
    Send(500, [statusCode |-> 500, error |-> "Internal Server Error", message |-> error], cookies)

(* ------------------------------ handlers ------------------------------- *)

\* a payload that still carries the password column
userWithPassword(row) == row

\* a payload that picks the id and the names only
userIdAndNames(row) == [f \in {"id", "first_name", "last_name"} |-> row[f]]

\* const { password: _, ...userWithoutPassword } = user
userWithoutPassword(row) == [f \in (DOMAIN row) \ {"password"} |-> row[f]]

\* a reply that tells an unknown email apart
userNotFound_distinct == Send(404, [error |-> "User not found"], {})

\* if (!user) return reply.status(401).send(...)
userNotFound == Send(401, [error |-> "Invalid credentials"], {})

\* if (!isMatch) return reply.status(401).send(...)
passwordMismatch == Send(401, [error |-> "Invalid credentials"], {})

\* a missing key that surfaces as an exception instead of a reply of its own
configurationError_thrown == Thrown("PRIVATE_KEY is not set", {})

\* if (!PRIVATE_PEM) return reply.status(500).send(...)
configurationError == Send(500, [error |-> "Server configuration error"], {})

\* the try block of authenticate: look the user up, compare the password,
\* sign both tokens and set both cookies
verifyCredentials(data, pg, privatePem, t) ==
    LET rows == SelectByEmail(pg.rows, data.email)
        row == CHOOSE r \in rows : TRUE
        claims == userWithoutPassword(row)
        accessToken == SignJWT(claims, ACCESS_TOKEN_EXPIRATION, privatePem, t)
        refreshToken == SignJWT(claims, REFRESH_TOKEN_EXPIRATION, privatePem, t)
    IN  IF ~pg.up
        THEN Thrown("store unavailable", {})
        ELSE IF rows = {}
        THEN userNotFound
        ELSE IF ~BcryptCompare(data.password, row.password)
        THEN passwordMismatch
        ELSE IF ~importPKCS8(privatePem)
        THEN Thrown("importPKCS8", {})
        ELSE Send(200, [user |-> claims],
                  {Cookie("accessToken", accessToken, ACCESS_TOKEN_EXPIRATION_MS),
                   Cookie("refreshToken", refreshToken, REFRESH_TOKEN_EXPIRATION_MS)})

\* an authenticate that verifies the credentials before it looks at the key
authenticate_keyLast(body, pg, privatePem, t) ==
    LET parsed == authUserSchema(body)
        checked == verifyCredentials(parsed.data, pg, "PRIVATE_KEY_1", t)
    IN  IF ~parsed.success
        THEN [reply |-> Thrown("ZodError", {}), queried |-> FALSE]
        ELSE IF checked.status # 200
        THEN [reply |-> checked, queried |-> TRUE]
        ELSE IF privatePem = NoPem
        THEN [reply |-> configurationError, queried |-> TRUE]
        ELSE [reply |-> verifyCredentials(parsed.data, pg, privatePem, t),
              queried |-> TRUE]

\* POST /authenticate: the reply, and whether the store was queried; the
\* schema is parsed outside the try block, so its ZodError is not caught
authenticate(body, pg, privatePem, t) ==
    LET parsed == authUserSchema(body)
    IN  IF ~parsed.success
        THEN [reply |-> Thrown("ZodError", {}), queried |-> FALSE]
        ELSE IF privatePem = NoPem
        THEN [reply |-> configurationError, queried |-> FALSE]
        ELSE [reply |-> verifyCredentials(parsed.data, pg, privatePem, t),
              queried |-> TRUE]

\* a refresh that also issues a new refresh token
refresh_rotating(cookies, privatePem, publicPem, t) ==
    LET refreshToken == cookies.refreshToken
        verified == jwtVerify(refreshToken, publicPem, t)
    IN  IF Falsy(refreshToken)
        THEN Send(401, [message |-> "No refresh token found"], {})
        ELSE IF publicPem = NoPem \/ privatePem = NoPem
        THEN Send(500, [error |-> "Server configuration error"], {})
        ELSE IF ~importSPKI(publicPem)
        THEN Thrown("importSPKI", {})
        ELSE IF ~verified.ok
        THEN Thrown(verified.error, {})
        ELSE IF ~importPKCS8(privatePem)
        THEN Thrown("importPKCS8", {})
        ELSE Send(200, [message |-> "New access token created"],
                  {Cookie("accessToken",
                          SignJWT(verified.payload, ACCESS_TOKEN_EXPIRATION, privatePem, t),
                          ACCESS_TOKEN_EXPIRATION_MS),
                   Cookie("refreshToken",
                          SignJWT(verified.payload, REFRESH_TOKEN_EXPIRATION, privatePem, t),
                          REFRESH_TOKEN_EXPIRATION_MS)})

\* a refresh that looks at the keys before it looks at the cookie
refresh_configFirst(cookies, privatePem, publicPem, t) ==
    LET refreshToken == cookies.refreshToken
        verified == jwtVerify(refreshToken, publicPem, t)
    IN  IF publicPem = NoPem \/ privatePem = NoPem
        THEN Send(500, [error |-> "Server configuration error"], {})
        ELSE IF Falsy(refreshToken)
        THEN Send(401, [message |-> "No refresh token found"], {})
        ELSE IF ~importSPKI(publicPem)
        THEN Thrown("importSPKI", {})
        ELSE IF ~verified.ok
        THEN Thrown(verified.error, {})
        ELSE IF ~importPKCS8(privatePem)
        THEN Thrown("importPKCS8", {})
        ELSE Send(200, [message |-> "New access token created"],
                  {Cookie("accessToken",
                          SignJWT(verified.payload, ACCESS_TOKEN_EXPIRATION, privatePem, t),
                          ACCESS_TOKEN_EXPIRATION_MS)})

\* POST /refresh
refresh(cookies, privatePem, publicPem, t) ==
    LET refreshToken == cookies.refreshToken
        verified == jwtVerify(refreshToken, publicPem, t)
    IN  IF Falsy(refreshToken)
        THEN Send(401, [message |-> "No refresh token found"], {})
        ELSE IF publicPem = NoPem \/ privatePem = NoPem
        THEN Send(500, [error |-> "Server configuration error"], {})
        ELSE IF ~importSPKI(publicPem)
        THEN Thrown("importSPKI", {})
        ELSE IF ~verified.ok
        THEN Thrown(verified.error, {})
        ELSE IF ~importPKCS8(privatePem)
        THEN Thrown("importPKCS8", {})
        ELSE Send(200, [message |-> "New access token created"],
                  {Cookie("accessToken",
                          SignJWT(verified.payload, ACCESS_TOKEN_EXPIRATION, privatePem, t),
                          ACCESS_TOKEN_EXPIRATION_MS)})

\* a catch block that forgets to reply when the token has expired
onVerifyError_fallThrough(error) ==
    IF error = "JWTExpired"
    THEN NoReply
    ELSE Send(403, [message |-> "Invalid access token"], {})

\* a catch block that reports every failure as an expired token
onVerifyError_allExpired(error) ==
    Send(401, [code |-> "ACCESS_TOKEN_EXPIRED"], {})

\* the catch block of verifyJWT
onVerifyError(error) ==
    IF error = "JWTExpired"
    THEN Send(401, [code |-> "ACCESS_TOKEN_EXPIRED"], {})
    ELSE Send(403, [message |-> "Invalid access token"], {})

\* a gate that admits a token only while its user is in the store
verifyJWT_lookup(cookies, publicPem, t) ==
    LET accessToken == cookies.accessToken
        verified == jwtVerify(accessToken, publicPem, t)
    IN  IF Falsy(accessToken)
        THEN [reply |-> Send(401, [code |-> "ACCESS_TOKEN_EXPIRED"], {}), user |-> NoUser]
        ELSE IF publicPem = NoPem
        THEN [reply |-> Send(500, [error |-> "Server configuration error"], {}),
              user |-> NoUser]
        ELSE IF ~importSPKI(publicPem)
        THEN [reply |-> onVerifyError("importSPKI"), user |-> NoUser]
        ELSE IF verified.ok /\ (\A r \in users : r.id # verified.payload.id)
        THEN [reply |-> Send(401, [code |-> "ACCESS_TOKEN_EXPIRED"], {}), user |-> NoUser]
        ELSE IF verified.ok
        THEN [reply |-> NoReply, user |-> verified.payload]
        ELSE [reply |-> onVerifyError(verified.error), user |-> NoUser]

\* the verifyJWT preHandler: the reply it sends, if any, and request.user
verifyJWT(cookies, publicPem, t) ==
    LET accessToken == cookies.accessToken
        verified == jwtVerify(accessToken, publicPem, t)
    IN  IF Falsy(accessToken)
        THEN [reply |-> Send(401, [code |-> "ACCESS_TOKEN_EXPIRED"], {}), user |-> NoUser]
        ELSE IF publicPem = NoPem
        THEN [reply |-> Send(500, [error |-> "Server configuration error"], {}),
              user |-> NoUser]
        ELSE IF ~importSPKI(publicPem)
        THEN [reply |-> onVerifyError("importSPKI"), user |-> NoUser]
        ELSE IF verified.ok
        THEN [reply |-> NoReply, user |-> verified.payload]
        ELSE [reply |-> onVerifyError(verified.error), user |-> NoUser]

(* ------------------------------- routes -------------------------------- *)

\* the route plugins: their preHandler hooks and the routes they declare
authRoutes ==
    [hooks |-> {},
     routes |-> {"POST /authenticate", "POST /refresh"}]
userRoutes ==
    [hooks |-> {"verifyJWT"},
     routes |-> {"GET /users", "GET /users/:id", "POST /users",
                 "PATCH /users/:id", "DELETE /users/:id"}]
customerRoutes ==
    [hooks |-> {},
     routes |-> {"GET /customers", "GET /customers/:id", "POST /customers",
                 "PATCH /customers/:id", "DELETE /customers/:id"}]
productRoutes ==
    [hooks |-> {},
     routes |-> {"GET /products", "GET /products/:id", "POST /products",
                 "PATCH /products/:id", "DELETE /products/:id"}]
salesRoutes ==
    [hooks |-> {"verifyJWT"},
     routes |-> {"GET /sales", "GET /sales/monthly-purchases"}]

\* fastify.register(...) calls of the entry point
Registered == {authRoutes, userRoutes, customerRoutes, productRoutes}

\* the resource routes of the sample requests: every /users route, and
\* routes of each other plugin
ResourceRoutes ==
    userRoutes.routes
        \cup {"GET /customers", "DELETE /customers/:id", "GET /products", "GET /sales"}

\* createUserSchema.safeParse(body).success: the password is optional
createUserSchema(body) ==
    /\ {"first_name", "last_name", "email"} \subseteq body.given
    /\ body.first_name # ""
    /\ body.last_name # ""
    /\ EmailOk(body.email)
    /\ "password" \in body.given => PasswordOk(body.password)

\* POST /users: the password column is NOT NULL and the email column UNIQUE
create(body, table) ==
    IF ~createUserSchema(body)
    THEN [reply |-> Send(400, [error |-> "ZodError"], {}), rows |-> table]
    ELSE IF "password" \notin body.given
    THEN [reply |-> Thrown("null value in column password", {}), rows |-> table]
    ELSE IF \E r \in table : r.email = body.email
    THEN [reply |-> Thrown("duplicate key value violates unique constraint", {}),
          rows |-> table]
    ELSE LET after == Insert(table, body)
             row == CHOOSE r \in after : r \notin table
         IN  [reply |-> Send(201, [user |-> userWithoutPassword(row)], {}),
              rows |-> after]

\* updateUserSchema.safeParse(body).success, for a body that gives a field
updateUserSchema(body) ==
    /\ "first_name" \in body.given => body.first_name # ""
    /\ "last_name" \in body.given => body.last_name # ""
    /\ "email" \in body.given => EmailOk(body.email)
    /\ "password" \in body.given => PasswordOk(body.password)

\* PATCH /users/:id; updateUserSchema refuses a body that gives no field
update(id, body, table) ==
    IF body.given = {}
    THEN [reply |-> Send(400, [error |-> "At least one field must be provided"], {}),
          rows |-> table]
    ELSE IF ~updateUserSchema(body)
    THEN [reply |-> Send(400, [error |-> "ZodError"], {}), rows |-> table]
    ELSE IF "email" \in body.given /\ \E r \in table : r.id # id /\ r.email = body.email
    THEN [reply |-> Thrown("duplicate key value violates unique constraint", {}),
          rows |-> table]
    ELSE IF \A r \in table : r.id # id
    THEN [reply |-> Send(404, [error |-> "User not found"], {}), rows |-> table]
    ELSE LET after == UpdateById(table, id, body)
             row == CHOOSE r \in after : r.id = id
         IN  [reply |-> Send(200, [user |-> userWithoutPassword(row)], {}),
              rows |-> after]

\* DELETE /users/:id
remove(id, table) ==
    IF \A r \in table : r.id # id
    THEN [reply |-> Send(404, [error |-> "User not found"], {}), rows |-> table]
    ELSE [reply |-> Send(200, [message |-> "User deleted successfully"], {}),
          rows |-> DeleteById(table, id)]

\* the handler of a route: its reply and the users table afterwards.  Of a
\* handler that does not write the users table, the model keeps that it ran
\* and that it replied.
handle(route, id, body, table) ==
    IF route = "POST /users" THEN create(body, table)
    ELSE IF route = "PATCH /users/:id" THEN update(id, body, table)
    ELSE IF route = "DELETE /users/:id" THEN remove(id, table)
    ELSE [reply |-> Send(200, [handler |-> route], {}), rows |-> table]

\* a request for a resource route: the router finds the plugin that declares
\* it, runs the plugin's preHandler hooks and, unless a hook has replied,
\* the handler; a route no registered plugin declares gets the router's 404.
dispatch(route, id, body, cookies, publicPem, t, table) ==
    LET owners == {p \in Registered : route \in p.routes}
    IN  IF owners = {}
        THEN [reply |-> Send(404, [error |-> "Not Found"], {}),
              user |-> NoUser, ran |-> NoHandler, rows |-> table]
        ELSE LET plugin == CHOOSE p \in owners : TRUE
                 gate == verifyJWT(cookies, publicPem, t)
                 handled == handle(route, id, body, table)
             IN  IF "verifyJWT" \in plugin.hooks /\ gate.reply.sent
                 THEN [reply |-> gate.reply, user |-> NoUser, ran |-> NoHandler,
                       rows |-> table]
                 ELSE [reply |-> handled.reply,
                       user |-> IF "verifyJWT" \in plugin.hooks THEN gate.user ELSE NoUser,
                       ran |-> route, rows |-> handled.rows]

(* ------------------------------ the client ----------------------------- *)

CookieNames == {"accessToken", "refreshToken"}

\* a token whose payload was altered after signing (expiry pushed out)
Tamper(token) ==
    [token EXCEPT !.claims = [@ EXCEPT !["exp"] = @ + REFRESH_TOKEN_EXPIRATION]]

\* a token signed with a key that is not the server's
Forged ==
    SignJWT(userWithoutPassword(Ann), REFRESH_TOKEN_EXPIRATION, "ATTACKER_KEY", 0)

\* the tokens the server has handed to the client
Held(j) == {j[n] : n \in CookieNames} \ {NoCookie}

\* what a client may put in a cookie of a request
Presentable(j) ==
    {NoCookie, EmptyCookie, Malformed, Forged} \cup Held(j) \cup {Tamper(c) : c \in Held(j)}

\* the client's cookies after the Set-Cookie headers of a reply
Store(j, cookies) ==
    [n \in CookieNames |->
        IF \E c \in cookies : c.name = n
        THEN (CHOOSE c \in cookies : c.name = n).value
        ELSE j[n]]

NoBody == [email |-> <<>>, password |-> <<>>]

\* the ids and bodies a client may send to a route
IdsOf(route) ==
    IF route \in {"PATCH /users/:id", "DELETE /users/:id"} THEN Ids ELSE {"none"}
BodiesOf(route) ==
    IF route = "PATCH /users/:id" THEN UpdateBodies
    ELSE IF route = "POST /users" THEN {EmptyBody}
    ELSE {NoBody}

NoRequest ==
    [op |-> "none", route |-> "none", id |-> "none", body |-> NoBody,
     cookies |-> [n \in CookieNames |-> NoCookie], at |-> 0, pgUp |-> TRUE]

\* the refresh calls that may be in flight together
Calls == {1, 2}

\* a refresh call that has not started: its position and its locals
NoCall ==
    [pc |-> "idle", refreshToken |-> NoCookie, user |-> NoUser,
     accessToken |-> NoCookie, verifiedAt |-> -1, signedAt |-> -1, reply |-> NoReply]

(* --------------------------- the state machine ------------------------- *)

Init ==
    /\ users = SeedRows
    /\ PRIVATE_PEM \in PrivatePems
    /\ PUBLIC_PEM \in PublicPems
    /\ now = 0
    /\ ticks = 0
    /\ jar = [n \in CookieNames |-> NoCookie]
    /\ req = NoRequest
    /\ reply = NoReply
    /\ user = NoUser
    /\ ran = NoHandler
    /\ queried = FALSE
    /\ authAt = -1
    /\ calls = [i \in Calls |-> NoCall]
    /\ statement = NoStatement

\* a client posts credentials to /authenticate, while the pool reaches the
\* store or does not
Authenticate(body, up) ==
    LET r == authenticate(body, Pg(up, users), PRIVATE_PEM, now)
    IN  /\ req = NoRequest
        /\ req' = [op |-> "authenticate", route |-> "POST /authenticate", id |-> "none",
                   body |-> body,
                   cookies |-> jar, at |-> now, pgUp |-> up]
        /\ reply' = r.reply
        /\ queried' = r.queried
        /\ authAt' = IF r.reply.status = 200 THEN now ELSE authAt
        /\ user' = NoUser
        /\ ran' = NoHandler
        /\ UNCHANGED <<statement, calls, users, PRIVATE_PEM, PUBLIC_PEM, now, ticks, jar>>

\* a client posts to /refresh with some refreshToken cookie
Refresh(token) ==
    LET cookies == [jar EXCEPT !["refreshToken"] = token]
        r == refresh(cookies, PRIVATE_PEM, PUBLIC_PEM, now)
    IN  /\ req = NoRequest
        /\ req' = [op |-> "refresh", route |-> "POST /refresh", id |-> "none", body |-> NoBody,
                   cookies |-> cookies, at |-> now, pgUp |-> TRUE]
        /\ reply' = r
        /\ queried' = FALSE
        /\ user' = NoUser
        /\ ran' = NoHandler
        /\ UNCHANGED <<statement, calls, users, PRIVATE_PEM, PUBLIC_PEM, now, ticks, jar, authAt>>

\* a client asks for a resource route with some accessToken cookie
Resource(route, id, body, token) ==
    LET cookies == [jar EXCEPT !["accessToken"] = token]
        r == dispatch(route, id, body, cookies, PUBLIC_PEM, now, users)
    IN  /\ req = NoRequest
        /\ req' = [op |-> "resource", route |-> route, id |-> id, body |-> body,
                   cookies |-> cookies, at |-> now, pgUp |-> TRUE]
        /\ reply' = r.reply
        /\ user' = r.user
        /\ ran' = r.ran
        /\ users' = r.rows
        /\ queried' = FALSE
        /\ UNCHANGED <<statement, calls, PRIVATE_PEM, PUBLIC_PEM, now, ticks, jar, authAt>>

\* the client receives the reply and keeps the cookies it sets
Receive ==
    /\ req # NoRequest
    /\ jar' = Store(jar, reply.cookies)
    /\ req' = NoRequest
    /\ reply' = NoReply
    /\ user' = NoUser
    /\ ran' = NoHandler
    /\ queried' = FALSE
    /\ statement' = NoStatement
    /\ UNCHANGED <<calls, users, PRIVATE_PEM, PUBLIC_PEM, now, ticks, authAt>>

\* time passes between two requests
Tick(d) ==
    /\ req = NoRequest
    /\ ticks < MaxTicks
    /\ now' = now + d
    /\ ticks' = ticks + 1
    /\ UNCHANGED <<statement, calls, users, PRIVATE_PEM, PUBLIC_PEM, jar, req, reply, user, ran, queried, authAt>>

Next ==
    \/ \E body \in Bodies, up \in BOOLEAN : Authenticate(body, up)
    \/ \E token \in Presentable(jar) : Refresh(token)
    \/ \E route \in ResourceRoutes, token \in Presentable(jar) :
          \E id \in IdsOf(route), body \in BodiesOf(route) : Resource(route, id, body, token)
    \/ Receive
    \/ \E d \in TimeSteps : Tick(d)

Spec == Init /\ [][Next]_vars

(* ------------------------------- sales --------------------------------- *)

\* \d, and the number a digit stands for
Digits == <<"0", "1", "2", "3", "4", "5", "6", "7", "8", "9">>
IsDigit(c) == \E i \in 1..10 : Digits[i] = c
DigitValue(c) == (CHOOSE i \in 1..10 : Digits[i] = c) - 1

\* /^\d{4}-\d{2}-\d{2}$/
DateShapeOk(text) ==
    /\ Len(text) = 10
    /\ \A i \in 1..10 :
           IF i \in {5, 8} THEN text[i] = "-" ELSE IsDigit(text[i])

\* the year, month and day a YYYY-MM-DD string names
DateOf(text) ==
    [y |-> 1000 * DigitValue(text[1]) + 100 * DigitValue(text[2])
              + 10 * DigitValue(text[3]) + DigitValue(text[4]),
     m |-> 10 * DigitValue(text[6]) + DigitValue(text[7]),
     d |-> 10 * DigitValue(text[9]) + DigitValue(text[10])]

DaysIn(y, m) ==
    IF m \in {4, 6, 9, 11} THEN 30
    ELSE IF m # 2 THEN 31
    ELSE IF (y % 4 = 0 /\ y % 100 # 0) \/ y % 400 = 0 THEN 29
    ELSE 28

\* the store casts a date parameter: a string that names no calendar date
\* is an error of the statement
PgDateOk(text) ==
    LET date == DateOf(text)
    IN  date.m \in 1..12 /\ date.d \in 1..DaysIn(date.y, date.m)

\* the order of dates, as the store compares them
DayNumber(text) ==
    LET date == DateOf(text)
    IN  10000 * date.y + 100 * date.m + date.d

\* z.uuid(): the sample ids that are UUIDs
CustomerA == "6f1c2a54-0000-4000-8000-00000000000a"
ProductA == "9d3e7b10-0000-4000-8000-00000000000a"
Uuids == {CustomerA, ProductA}

\* id SERIAL PRIMARY KEY, customer_id INTEGER, product_id INTEGER: the
\* store casts an id parameter to an integer, and a text that is no
\* integer is an error of the statement
SerialIds == {"1", "2"}
PgIntegerOk(text) == text \in SerialIds

Jan10 == <<"2", "0", "2", "4", "-", "0", "1", "-", "1", "0">>
Feb01 == <<"2", "0", "2", "4", "-", "0", "2", "-", "0", "1">>
Feb15 == <<"2", "0", "2", "4", "-", "0", "2", "-", "1", "5">>
Feb30 == <<"2", "0", "2", "4", "-", "0", "2", "-", "3", "0">>
Mar20 == <<"2", "0", "2", "4", "-", "0", "3", "-", "2", "0">>
Apr01 == <<"2", "0", "2", "4", "-", "0", "4", "-", "0", "1">>
ShortDate == <<"2", "0", "2", "4", "-", "2", "-", "1">>

\* rows of sales joined with their customer and product
SeedSales ==
    {[sale_id |-> "1", customer_id |-> "1", product_id |-> "1", sale_date |-> Jan10],
     [sale_id |-> "2", customer_id |-> "1", product_id |-> "2", sale_date |-> Feb15],
     [sale_id |-> "3", customer_id |-> "2", product_id |-> "1", sale_date |-> Mar20],
     [sale_id |-> "4", customer_id |-> "2", product_id |-> "2", sale_date |-> Apr01]}

\* request.query of GET /sales: the parameters given, and their values
SalesQueries ==
    {[given |-> g, customerId |-> c, productId |-> p, startDate |-> s, endDate |-> e] :
        g \in SUBSET {"customerId", "productId", "startDate", "endDate"},
        c \in {CustomerA, "1"}, p \in {ProductA}, s \in {Feb01, Mar20, ShortDate},
        e \in {Feb15, Feb30}}

\* getAllSalesQuerySchema.safeParse(query).success
getAllSalesQuerySchema(query) ==
    /\ "customerId" \in query.given => query.customerId \in Uuids
    /\ "productId" \in query.given => query.productId \in Uuids
    /\ "startDate" \in query.given => DateShapeOk(query.startDate)
    /\ "endDate" \in query.given => DateShapeOk(query.endDate)

\* ORDER BY s.sale_date DESC
RECURSIVE OrderBySaleDateDesc(_)
OrderBySaleDateDesc(rows) ==
    IF rows = {} THEN <<>>
    ELSE LET first == CHOOSE r \in rows :
                         \A o \in rows : DayNumber(o.sale_date) <= DayNumber(r.sale_date)
         IN  <<first>> \o OrderBySaleDateDesc(rows \ {first})

\* GET /sales
getAll(query, table) ==
    LET byCustomer == "customerId" \in query.given
        byProduct == "productId" \in query.given
        byDates == "startDate" \in query.given /\ "endDate" \in query.given
        rows == {r \in table :
                    /\ byCustomer => r.customer_id = query.customerId
                    /\ byProduct => r.product_id = query.productId
                    /\ byDates => /\ DayNumber(r.sale_date) >= DayNumber(query.startDate)
                                  /\ DayNumber(r.sale_date) <= DayNumber(query.endDate)}
    IN  IF ~getAllSalesQuerySchema(query)
        THEN Send(400, [error |-> "ZodError"], {})
        ELSE IF \/ byCustomer /\ ~PgIntegerOk(query.customerId)
                \/ byProduct /\ ~PgIntegerOk(query.productId)
        THEN Thrown("invalid input syntax for type integer", {})
        ELSE IF byDates /\ ~(PgDateOk(query.startDate) /\ PgDateOk(query.endDate))
        THEN Thrown("date/time field value out of range", {})
        ELSE Send(200, [sales |-> OrderBySaleDateDesc(rows), total |-> Cardinality(rows),
                        filters |-> query], {})

\* the server at start-up with both keys configured, and a client that has
\* not signed in
InitSales ==
    /\ users = SeedRows
    /\ PRIVATE_PEM = "PRIVATE_KEY_1"
    /\ PUBLIC_PEM = "PUBLIC_KEY_1"
    /\ now = 0
    /\ ticks = 0
    /\ jar = [n \in CookieNames |-> NoCookie]
    /\ req = NoRequest
    /\ reply = NoReply
    /\ user = NoUser
    /\ ran = NoHandler
    /\ queried = FALSE
    /\ authAt = -1
    /\ calls = [i \in Calls |-> NoCall]
    /\ statement = NoStatement

\* the getAll handler of the sales plugin serves a query
GetAllSales(query) ==
    /\ req = NoRequest
    /\ req' = [op |-> "sales", route |-> "GET /sales", id |-> "none", body |-> NoBody,
               cookies |-> jar, at |-> now, pgUp |-> TRUE, query |-> query]
    /\ reply' = getAll(query, SeedSales)
    /\ ran' = "GET /sales"
    /\ queried' = getAllSalesQuerySchema(query)
    /\ UNCHANGED <<statement, calls, users, PRIVATE_PEM, PUBLIC_PEM, now, ticks, jar, user, authAt>>

NextSales ==
    \/ \E query \in SalesQueries : GetAllSales(query)
    \/ Receive

SpecSales == InitSales /\ [][NextSales]_vars

(* ------------------ passwords written through /users ------------------ *)

\* bodies of POST /users: a new user, with or without a password
CreateBodies ==
    {[given |-> g, first_name |-> "Eve", last_name |-> "Fox", email |-> e, password |-> p] :
        g \in {{"first_name", "last_name", "email", "password"},
               {"first_name", "last_name", "email"}},
        e \in {EveEmail, AnnEmail}, p \in {AnnPassword, ShortPassword}}

\* bodies of PATCH /users/:id that give a new password
PasswordBodies ==
    {[given |-> {"password"}, first_name |-> "", last_name |-> "", email |-> <<>>,
      password |-> p] : p \in {AnnPassword, BobPassword}}

\* the credentials tried afterwards
SignInBodies ==
    {[email |-> e, password |-> p] : e \in {AnnEmail, EveEmail},
                                     p \in {AnnPassword, BobPassword}}

\* both keys configured; Ann has signed in at time 0 and holds her cookies
InitUsers ==
    /\ users = SeedRows
    /\ PRIVATE_PEM = "PRIVATE_KEY_1"
    /\ PUBLIC_PEM = "PUBLIC_KEY_1"
    /\ now = 0
    /\ ticks = 0
    /\ jar = Store([n \in CookieNames |-> NoCookie],
                   authenticate([email |-> AnnEmail, password |-> AnnPassword],
                                Pg(TRUE, users), PRIVATE_PEM, 0).reply.cookies)
    /\ req = NoRequest
    /\ reply = NoReply
    /\ user = NoUser
    /\ ran = NoHandler
    /\ queried = FALSE
    /\ authAt = 0
    /\ calls = [i \in Calls |-> NoCall]
    /\ statement = NoStatement

NextUsers ==
    \/ \E body \in SignInBodies, up \in BOOLEAN : Authenticate(body, up)
    \/ \E body \in CreateBodies : Resource("POST /users", "none", body, jar["accessToken"])
    \/ \E id \in {"1", "3"}, body \in PasswordBodies :
          Resource("PATCH /users/:id", id, body, jar["accessToken"])
    \/ Receive

SpecUsers == InitUsers /\ [][NextUsers]_vars

(* ------------------------ the update statements ----------------------- *)

\* the three update handlers: their table, their columns, whether they
\* stamp updated_at, and the sample value of each column
UpdateResources ==
    {[route |-> "PATCH /users/:id", table |-> "users", columns |-> UserColumns,
      stamped |-> FALSE,
      values |-> [first_name |-> "Zed", last_name |-> "Poe", email |-> EveEmail,
                  password |-> BobPassword]],
     [route |-> "PATCH /customers/:id", table |-> "customers", columns |-> CustomerColumns,
      stamped |-> TRUE,
      values |-> [first_name |-> "Cy", last_name |-> "Ode", email |-> EveEmail,
                  phone |-> "555-0100"]],
     [route |-> "PATCH /products/:id", table |-> "products", columns |-> ProductColumns,
      stamped |-> TRUE,
      values |-> [name |-> "Lamp", description |-> "Desk lamp", price |-> 20, stock |-> 3]]}

UpdateIds == {"1", "2", "9"}

ColumnsOf(resource) == {resource.columns[k] : k \in DOMAIN resource.columns}

\* an update handler builds its statement from the fields the body gives;
\* a body that gives none is refused before anything is built
BuildUpdate(resource, id, given) ==
    LET body == [given |-> given] @@ resource.values
    IN  /\ req = NoRequest
        /\ req' = [op |-> "update", route |-> resource.route, id |-> id, body |-> body,
                   cookies |-> jar, at |-> now, pgUp |-> TRUE]
        /\ statement' = IF given = {} THEN NoStatement
                        ELSE updateStatement(resource.table, resource.columns,
                                             resource.stamped, body, id)
        /\ UNCHANGED <<calls, users, PRIVATE_PEM, PUBLIC_PEM, now, ticks, jar, reply, user,
                       ran, queried, authAt>>

NextUpdate ==
    \/ \E resource \in UpdateResources, id \in UpdateIds :
          \E given \in SUBSET ColumnsOf(resource) : BuildUpdate(resource, id, given)
    \/ Receive

SpecUpdate == InitSales /\ [][NextUpdate]_vars

(* ------------------- refresh, one await at a time ---------------------- *)

\* what a step of a refresh call leaves alone: a call writes its own locals
\* and its own reply, nothing else
serverVars == <<statement, users, PRIVATE_PEM, PUBLIC_PEM, now, ticks, jar, req, reply, user, ran, queried, authAt>>

\* the client holds no cookie or, where the private key let authenticate
\* sign, the two cookies of an authenticate at time 0
InitConc ==
    /\ users = SeedRows
    /\ PRIVATE_PEM \in PrivatePems
    /\ PUBLIC_PEM \in PublicPems
    /\ now = 0
    /\ ticks = 0
    /\ \E row \in SeedRows :
           LET r == verifyCredentials([email |-> row.email, password |-> row.password.bcrypt],
                                      Pg(TRUE, users), PRIVATE_PEM, 0)
           IN  \E held \in {FALSE, r.status = 200} :
                  /\ jar = Store([n \in CookieNames |-> NoCookie], IF held THEN r.cookies ELSE {})
                  /\ authAt = IF held THEN 0 ELSE -1
    /\ req = NoRequest
    /\ reply = NoReply
    /\ user = NoUser
    /\ ran = NoHandler
    /\ queried = FALSE
    /\ calls = [i \in Calls |-> NoCall]
    /\ statement = NoStatement

\* the synchronous head of refresh: the cookie is read and the two early
\* returns are taken or not; the call then awaits importSPKI
RefreshStart(i) ==
    /\ calls[i].pc = "idle"
    /\ IF Falsy(jar["refreshToken"])
       THEN calls' = [calls EXCEPT ![i].pc = "done",
                                   ![i].reply = Send(401, [message |-> "No refresh token found"], {})]
       ELSE IF PUBLIC_PEM = NoPem \/ PRIVATE_PEM = NoPem
       THEN calls' = [calls EXCEPT ![i].pc = "done",
                                   ![i].refreshToken = jar["refreshToken"],
                                   ![i].reply = Send(500, [error |-> "Server configuration error"], {})]
       ELSE calls' = [calls EXCEPT ![i].pc = "importSPKI",
                                   ![i].refreshToken = jar["refreshToken"]]
    /\ UNCHANGED serverVars

\* await jose.importSPKI(PUBLIC_PEM, "RS256") settles
RefreshImportSPKI(i) ==
    /\ calls[i].pc = "importSPKI"
    /\ IF ~importSPKI(PUBLIC_PEM)
       THEN calls' = [calls EXCEPT ![i].pc = "done", ![i].reply = Thrown("importSPKI", {})]
       ELSE calls' = [calls EXCEPT ![i].pc = "jwtVerify"]
    /\ UNCHANGED serverVars

\* a verification that accepts a refresh token once only
RefreshJwtVerify_singleUse(i) ==
    LET verified == jwtVerify(calls[i].refreshToken, PUBLIC_PEM, now)
        used == \E j \in Calls \ {i} :
                    calls[j].verifiedAt >= 0 /\ calls[j].refreshToken = calls[i].refreshToken
    IN  /\ calls[i].pc = "jwtVerify"
        /\ IF ~verified.ok \/ used
           THEN calls' = [calls EXCEPT ![i].pc = "done", ![i].reply = Thrown("JWTInvalid", {})]
           ELSE calls' = [calls EXCEPT ![i].pc = "importPKCS8",
                                       ![i].user = verified.payload,
                                       ![i].verifiedAt = now]
        /\ UNCHANGED serverVars

\* await jose.jwtVerify(refreshToken, publicKey) settles
RefreshJwtVerify(i) ==
    LET verified == jwtVerify(calls[i].refreshToken, PUBLIC_PEM, now)
    IN  /\ calls[i].pc = "jwtVerify"
        /\ IF ~verified.ok
           THEN calls' = [calls EXCEPT ![i].pc = "done", ![i].reply = Thrown(verified.error, {})]
           ELSE calls' = [calls EXCEPT ![i].pc = "importPKCS8",
                                       ![i].user = verified.payload,
                                       ![i].verifiedAt = now]
        /\ UNCHANGED serverVars

\* await jose.importPKCS8(PRIVATE_PEM, "RS256") settles; the builder then
\* takes the payload and computes the expiry from the clock
RefreshImportPKCS8(i) ==
    /\ calls[i].pc = "importPKCS8"
    /\ IF ~importPKCS8(PRIVATE_PEM)
       THEN calls' = [calls EXCEPT ![i].pc = "done", ![i].reply = Thrown("importPKCS8", {})]
       ELSE calls' = [calls EXCEPT ![i].pc = "sign",
                                   ![i].accessToken =
                                       SignJWT(calls[i].user, ACCESS_TOKEN_EXPIRATION, PRIVATE_PEM, now),
                                   ![i].signedAt = now]
    /\ UNCHANGED serverVars

\* await ...sign(privateKey) settles: the cookie is set and the reply sent
RefreshSign(i) ==
    /\ calls[i].pc = "sign"
    /\ calls' = [calls EXCEPT
           ![i].pc = "done",
           ![i].reply = Send(200, [message |-> "New access token created"],
                             {Cookie("accessToken", calls[i].accessToken,
                                     ACCESS_TOKEN_EXPIRATION_MS)})]
    /\ UNCHANGED serverVars

\* time passes while the calls are in flight
TickConc(d) ==
    /\ ticks < MaxTicks
    /\ now' = now + d
    /\ ticks' = ticks + 1
    /\ UNCHANGED <<statement, calls, users, PRIVATE_PEM, PUBLIC_PEM, jar, req, reply, user, ran, queried, authAt>>

NextConc ==
    \/ \E i \in Calls : RefreshStart(i)
    \/ \E i \in Calls : RefreshImportSPKI(i)
    \/ \E i \in Calls : RefreshJwtVerify(i)
    \/ \E i \in Calls : RefreshImportPKCS8(i)
    \/ \E i \in Calls : RefreshSign(i)
    \/ \E d \in TimeSteps : TickConc(d)

SpecConc == InitConc /\ [][NextConc]_vars

(* ------------------------- vocabulary of the claims -------------------- *)

\* the route of the request is declared by a plugin that hooks verifyJWT
Guarded(route) ==
    \E p \in Registered : route \in p.routes /\ "verifyJWT" \in p.hooks

\* the cookie is a JWT whose signature matches its claims under the
\* configured public key
SignedByServer(c) ==
    /\ c.kind = "jwt"
    /\ PUBLIC_PEM = "PUBLIC_KEY_1"
    /\ c.sig = [key |-> "PRIVATE_KEY_1", over |-> c.claims]

\* the cookie is a valid access credential at time t
ValidAt(c, t) == SignedByServer(c) /\ c.claims["exp"] > t

\* credentials of valid shape: the sample emails and passwords that meet
\* the schema
WellFormed(b) ==
    /\ b.email \in {AnnEmail, BobEmail, EveEmail}
    /\ b.password \in {AnnPassword, BobPassword}

\* what the store, when it answers, holds about the credentials
UnknownEmail(b) == \A r \in users : r.email # b.email
WrongPassword(b) == \E r \in users : r.email = b.email /\ r.password # [bcrypt |-> b.password]

GateDenied == reply.sent /\ ran = NoHandler /\ user = NoUser

(* -------------------------------- claims ------------------------------- *)

\* C1: on a route guarded by verifyJWT the handler runs only for a request
\* whose accessToken cookie verified (server signature, not expired), and
\* then request.user is the verified payload; in every other case the gate
\* has sent a reply, no handler ran and request.user is unset.
C1_FailClosed ==
    (req.op = "resource" /\ Guarded(req.route)) =>
        IF ValidAt(req.cookies.accessToken, req.at)
        THEN /\ ran = req.route
             /\ user = req.cookies.accessToken.claims
        ELSE /\ GateDenied
             /\ reply.status \in {401, 403, 500}

C1_Witness ==
    /\ req.op = "resource"
    /\ Guarded(req.route)
    /\ ran = req.route
    /\ user = req.cookies.accessToken.claims

\* C2: no handler of a /users, /customers, /products or /sales route runs
\* for a request that carries no valid access token.
C2_AllResourceRoutesGuarded ==
    (req.op = "resource" /\ ran # NoHandler) => ValidAt(req.cookies.accessToken, req.at)

\* C3: for well-formed credentials, the reply to an unknown email and the
\* reply to a known email with a wrong password are the same reply and set
\* no cookie: 401 'Invalid credentials' (when the private key is
\* configured), so no failed authenticate tells whether the email exists.
C3_EnumerationSafe ==
    (req.op = "authenticate" /\ WellFormed(req.body) /\ req.pgUp
        /\ (UnknownEmail(req.body) \/ WrongPassword(req.body))) =>
        /\ reply.cookies = {}
        /\ PRIVATE_PEM # NoPem =>
              reply.status = 401 /\ reply.body = [error |-> "Invalid credentials"]
        /\ \A other \in Bodies :
              (WellFormed(other) /\ (UnknownEmail(other) \/ WrongPassword(other))) =>
                  authenticate(other, Pg(TRUE, users), PRIVATE_PEM, req.at).reply = reply

C3_Witness ==
    /\ req.op = "authenticate"
    /\ req.body = [email |-> EveEmail, password |-> AnnPassword]
    /\ reply.status = 401
    /\ authenticate([email |-> AnnEmail, password |-> BobPassword],
                    Pg(TRUE, users), PRIVATE_PEM, req.at).reply = reply

\* C4: no token the server issues (by authenticate or by refresh, in either
\* cookie) and no authenticate reply body carries a password field.
C4_NoPasswordIssued ==
    /\ \A c \in reply.cookies : "password" \notin DOMAIN c.value.claims
    /\ \A n \in CookieNames : jar[n] # NoCookie => "password" \notin DOMAIN jar[n].claims
    /\ (req.op = "authenticate" /\ reply.status = 200) =>
            "password" \notin DOMAIN reply.body.user

C4_Witness ==
    /\ req.op = "refresh"
    /\ reply.status = 200
    /\ \E c \in reply.cookies : c.name = "accessToken" /\ c.value.claims["exp"] > ACCESS_TOKEN_EXPIRATION

\* C5: a request that presents the refresh token issued by authenticate in
\* its accessToken cookie is not admitted by the gate.
C5_RefreshTokenNotAdmitted ==
    (req.op = "resource" /\ Guarded(req.route)
        /\ jar["refreshToken"] # NoCookie
        /\ req.cookies.accessToken = jar["refreshToken"]) =>
        ran = NoHandler

\* C6: after the last successful authenticate at time t, no refresh
\* succeeds after t + 30 days and the gate admits no request after
\* t + 30 days + 15 minutes.
C6_SessionEnds ==
    /\ (req.op = "refresh" /\ reply.status = 200) =>
            req.at <= authAt + REFRESH_TOKEN_EXPIRATION
    /\ (req.op = "resource" /\ Guarded(req.route) /\ ran # NoHandler) =>
            req.at <= authAt + REFRESH_TOKEN_EXPIRATION + ACCESS_TOKEN_EXPIRATION

\* C7: authenticate with a body of invalid shape replies 400, queries the
\* store not at all and sets no cookie.
C7_InvalidShape400 ==
    (req.op = "authenticate" /\ ~WellFormed(req.body)) =>
        /\ reply.status = 400
        /\ ~queried
        /\ reply.cookies = {}

\* C8: refresh with a refreshToken cookie that is present but does not
\* verify (expired, bad signature, malformed), both keys configured,
\* replies 401 and sets no cookie.
C8_BadRefreshToken401 ==
    (req.op = "refresh" /\ PRIVATE_PEM = "PRIVATE_KEY_1" /\ PUBLIC_PEM = "PUBLIC_KEY_1"
        /\ ~Falsy(req.cookies.refreshToken)
        /\ ~ValidAt(req.cookies.refreshToken, req.at)) =>
        /\ reply.status = 401
        /\ reply.cookies = {}

\* C9: the gate answers a request without accessToken cookie with 401 and
\* code ACCESS_TOKEN_EXPIRED; with the public key configured, a token signed
\* by the server but past its expiry with the same 401, and a token with a
\* tampered signature or a malformed one with 403 'Invalid access token';
\* a tampered or malformed token never gets code ACCESS_TOKEN_EXPIRED.
C9_GateDenials ==
    (req.op = "resource" /\ Guarded(req.route)) =>
        LET token == req.cookies.accessToken
            expired == [code |-> "ACCESS_TOKEN_EXPIRED"]
        IN  /\ Falsy(token) => reply.status = 401 /\ reply.body = expired
            /\ (SignedByServer(token) /\ token.claims["exp"] <= req.at) =>
                    reply.status = 401 /\ reply.body = expired
            /\ (~Falsy(token) /\ ~SignedByServer(token)) =>
                    /\ reply.body # expired
                    /\ PUBLIC_PEM # NoPem =>
                          reply.status = 403 /\ reply.body = [message |-> "Invalid access token"]

C9_Witness ==
    /\ req.op = "resource"
    /\ Guarded(req.route)
    /\ SignedByServer(req.cookies.accessToken)
    /\ req.cookies.accessToken.claims["exp"] <= req.at
    /\ reply.status = 401

\* C10 as stated: well-formed credentials that match no user or carry a
\* wrong password get 401 whether or not the private key is configured, and
\* the 500 for an absent private key is given only to verified credentials.
C10_VerifyBeforeSign ==
    (req.op = "authenticate" /\ WellFormed(req.body) /\ req.pgUp) =>
        /\ (UnknownEmail(req.body) \/ WrongPassword(req.body)) => reply.status = 401
        /\ reply.body = [error |-> "Server configuration error"] =>
                ~(UnknownEmail(req.body) \/ WrongPassword(req.body))

\* C10 amended: authenticate looks at the private key before it verifies
\* the credentials: with the key absent every well-formed credential gets
\* 500 'Server configuration error' and the store is not queried; with the
\* key configured an unknown email or a wrong password gets 401.
C10_KeyBeforeVerify ==
    (req.op = "authenticate" /\ WellFormed(req.body)) =>
        IF PRIVATE_PEM = NoPem
        THEN /\ reply.status = 500
             /\ reply.body = [error |-> "Server configuration error"]
             /\ ~queried
        ELSE /\ queried
             /\ (req.pgUp /\ (UnknownEmail(req.body) \/ WrongPassword(req.body))) =>
                    reply.status = 401

C10_Witness ==
    /\ req.op = "authenticate"
    /\ req.body = [email |-> AnnEmail, password |-> BobPassword]
    /\ PRIVATE_PEM = NoPem
    /\ reply.status = 500

\* C11: absent key material gives a 'Server configuration error' 500 and
\* nothing else: authenticate with credentials that match a stored user and
\* no private key; refresh with a refreshToken cookie and a public or a
\* private key missing; the gate with an accessToken cookie and no public
\* key.  No cookie is set, no handler runs, request.user stays unset.
C11_AbsentKeyDegrades ==
    LET degraded ==
            /\ reply.sent
            /\ reply.status = 500
            /\ reply.body = [error |-> "Server configuration error"]
            /\ reply.cookies = {}
            /\ ran = NoHandler
            /\ user = NoUser
    IN  /\ (req.op = "authenticate" /\ WellFormed(req.body) /\ PRIVATE_PEM = NoPem
                /\ ~UnknownEmail(req.body) /\ ~WrongPassword(req.body)) => degraded
        /\ (req.op = "refresh" /\ ~Falsy(req.cookies.refreshToken)
                /\ (PUBLIC_PEM = NoPem \/ PRIVATE_PEM = NoPem)) => degraded
        /\ (req.op = "resource" /\ Guarded(req.route)
                /\ ~Falsy(req.cookies.accessToken) /\ PUBLIC_PEM = NoPem) => degraded

C11_Witness ==
    /\ req.op = "resource"
    /\ Guarded(req.route)
    /\ jar["accessToken"] # NoCookie
    /\ req.cookies.accessToken = jar["accessToken"]
    /\ PUBLIC_PEM = NoPem
    /\ reply.status = 500

\* C12: in authenticate, refresh and the gate, a failure that is neither a
\* validation, a credential nor a token-verification failure (the store
\* does not answer, a configured key is no PEM) surfaces as the generic 500
\* of the top-level handler, never as a 2xx or a 4xx.
C12_UnexpectedSurfaces500 ==
    LET generic ==
            /\ reply.status = 500
            /\ reply.body # [error |-> "Server configuration error"]
            /\ ran = NoHandler
    IN  /\ (req.op = "authenticate" /\ WellFormed(req.body) /\ PRIVATE_PEM # NoPem
                /\ ~req.pgUp) => generic
        /\ (req.op = "authenticate" /\ WellFormed(req.body) /\ PRIVATE_PEM = "NOT_A_PEM"
                /\ req.pgUp /\ ~UnknownEmail(req.body) /\ ~WrongPassword(req.body)) => generic
        /\ (req.op = "refresh" /\ ~Falsy(req.cookies.refreshToken)
                /\ PRIVATE_PEM # NoPem /\ PUBLIC_PEM = "NOT_A_PEM") => generic
        /\ (req.op = "resource" /\ Guarded(req.route) /\ ~Falsy(req.cookies.accessToken)
                /\ PUBLIC_PEM = "NOT_A_PEM") => generic

\* C13: for well-formed credentials that match a stored user, with the
\* private key configured, authenticate replies 200 with body {user: claims},
\* the claims being exactly the row's id, first_name, last_name and email,
\* and sets exactly the cookies accessToken and refreshToken, whose payloads
\* equal the claims and each other except for the expiry.
C13_AuthenticateSuccess ==
    (req.op = "authenticate" /\ WellFormed(req.body) /\ req.pgUp
        /\ PRIVATE_PEM = "PRIVATE_KEY_1"
        /\ ~UnknownEmail(req.body) /\ ~WrongPassword(req.body)) =>
        LET row == CHOOSE r \in users : r.email = req.body.email
            claims == [id |-> row.id, first_name |-> row.first_name,
                       last_name |-> row.last_name, email |-> row.email]
        IN  /\ reply.status = 200
            /\ reply.body = [user |-> claims]
            /\ Cardinality(reply.cookies) = 2
            /\ {c.name : c \in reply.cookies} = {"accessToken", "refreshToken"}
            /\ \A c \in reply.cookies :
                    /\ DOMAIN c.value.claims = {"id", "first_name", "last_name", "email", "exp"}
                    /\ \A f \in DOMAIN claims : c.value.claims[f] = claims[f]
            /\ \A c, d \in reply.cookies :
                    c.name # d.name => c.value.claims["exp"] # d.value.claims["exp"]

C13_Witness ==
    /\ req.op = "authenticate"
    /\ req.body = [email |-> BobEmail, password |-> BobPassword]
    /\ reply.status = 200
    /\ Cardinality(reply.cookies) = 2

\* C14: with both keys configured, refresh called with a refresh token that
\* verifies and has not expired replies 200 with the confirmation message and
\* sets exactly one cookie, accessToken, whose token carries the claims of the
\* presented token with the expiry replaced by 15 minutes from the call.
C14_RefreshReissues ==
    (req.op = "refresh" /\ PRIVATE_PEM = "PRIVATE_KEY_1"
        /\ ValidAt(req.cookies.refreshToken, req.at)) =>
        LET presented == req.cookies.refreshToken.claims
        IN  /\ reply.status = 200
            /\ reply.body = [message |-> "New access token created"]
            /\ Cardinality(reply.cookies) = 1
            /\ \A c \in reply.cookies :
                    /\ c.name = "accessToken"
                    /\ c.value.kind = "jwt"
                    /\ c.value.claims =
                           [presented EXCEPT !["exp"] = req.at + ACCESS_TOKEN_EXPIRATION]
                    /\ c.value.sig = Signature(c.value.claims, PRIVATE_PEM)

C14_Witness ==
    /\ req.op = "refresh"
    /\ reply.status = 200
    /\ req.cookies.refreshToken = jar["refreshToken"]
    /\ req.at > authAt
    /\ \E c \in reply.cookies :
           c.value.claims["exp"] < req.cookies.refreshToken.claims["exp"]

\* C15: no reply of refresh sets a refreshToken cookie, and the refresh token
\* the client holds is always the one of its last successful authenticate:
\* it expires 30 days after that call, however many refresh calls followed.
C15_NoRotation ==
    /\ req.op = "refresh" => \A c \in reply.cookies : c.name # "refreshToken"
    /\ (req.op # "authenticate" /\ jar["refreshToken"] # NoCookie) =>
           /\ authAt >= 0
           /\ jar["refreshToken"].claims["exp"] = authAt + REFRESH_TOKEN_EXPIRATION

C15_Witness ==
    /\ req = NoRequest
    /\ jar["refreshToken"] # NoCookie
    /\ jar["accessToken"] # NoCookie
    /\ jar["accessToken"].claims["exp"] > authAt + ACCESS_TOKEN_EXPIRATION

\* C16: refresh called with no refreshToken cookie, or an empty one, replies
\* 401 'No refresh token found' and sets no cookie, whatever the keys are.
C16_NoRefreshToken ==
    (req.op = "refresh" /\ Falsy(req.cookies.refreshToken)) =>
        /\ reply.status = 401
        /\ reply.body = [message |-> "No refresh token found"]
        /\ reply.cookies = {}

C16_Witness ==
    /\ req.op = "refresh"
    /\ req.cookies.refreshToken = EmptyCookie
    /\ PRIVATE_PEM = NoPem
    /\ reply.status = 401

\* C17: with a matching key pair configured, the access token the server
\* last issued to the client (by authenticate or by refresh), presented on a
\* guarded route before its expiry, is admitted: the handler runs and
\* request.user is the payload that was signed, the id, first_name, last_name
\* and email of the user together with the expiry.
C17_SignVerifyRoundTrip ==
    (req.op = "resource" /\ Guarded(req.route)
        /\ jar["accessToken"] # NoCookie
        /\ req.cookies.accessToken = jar["accessToken"]
        /\ PUBLIC_PEM = PublicOf(PRIVATE_PEM)
        /\ jar["accessToken"].claims["exp"] > req.at) =>
        /\ ran = req.route
        /\ user = jar["accessToken"].claims
        /\ DOMAIN user = {"id", "first_name", "last_name", "email", "exp"}
        /\ jar["accessToken"].sig.over = user

C17_Witness ==
    /\ req.op = "resource"
    /\ Guarded(req.route)
    /\ req.cookies.accessToken = jar["accessToken"]
    /\ ran = req.route
    /\ user # NoUser
    /\ user["exp"] > authAt + ACCESS_TOKEN_EXPIRATION

\* C18: two refresh calls in flight together that present the same refresh
\* token, valid throughout, both reply 200 under every interleaving of their
\* steps; each reply is the one the call would have produced alone at the
\* time it signed, and each sets its own access token, which the gate admits
\* until that token expires.
C18_ConcurrentRefresh ==
    \A i \in Calls :
        (calls[i].pc = "done" /\ ValidAt(calls[i].refreshToken, now)) =>
            /\ calls[i].reply.status = 200
            /\ calls[i].reply =
                   refresh([jar EXCEPT !["refreshToken"] = calls[i].refreshToken],
                           PRIVATE_PEM, PUBLIC_PEM, calls[i].signedAt)
            /\ \A c \in calls[i].reply.cookies :
                   /\ c.value.claims["exp"] = calls[i].signedAt + ACCESS_TOKEN_EXPIRATION
                   /\ \A t \in {calls[i].signedAt, now} :
                          t < c.value.claims["exp"] =>
                              LET gate == verifyJWT([accessToken |-> c.value, refreshToken |-> NoCookie],
                                                    PUBLIC_PEM, t)
                              IN  ~gate.reply.sent /\ gate.user = c.value.claims

C18_Witness ==
    /\ \A i \in Calls : calls[i].pc = "done" /\ calls[i].reply.status = 200
    /\ calls[1].refreshToken = calls[2].refreshToken
    /\ calls[1].verifiedAt < calls[2].verifiedAt
    /\ calls[2].signedAt < calls[1].signedAt
    /\ now < calls[2].signedAt + ACCESS_TOKEN_EXPIRATION

C21_EveryFilterApplied ==
    LET q == req.query
        Supplied(f) == f \in q.given
        expected ==
            {r \in SeedSales :
                /\ Supplied("customerId") => r.customer_id = q.customerId
                /\ Supplied("productId") => r.product_id = q.productId
                /\ Supplied("startDate") => DayNumber(r.sale_date) >= DayNumber(q.startDate)
                /\ Supplied("endDate") => DayNumber(r.sale_date) <= DayNumber(q.endDate)}
    IN  (req.op = "sales" /\ getAllSalesQuerySchema(q)
            /\ (Supplied("startDate") => PgDateOk(q.startDate))
            /\ (Supplied("endDate") => PgDateOk(q.endDate))) =>
            /\ reply.status = 200
            /\ {reply.body.sales[i] : i \in DOMAIN reply.body.sales} = expected
            /\ reply.body.total = Cardinality(expected)

\* the statement of the request served last, against the fields it gave:
\* the first n SET entries name the n given columns in declaration order
\* with placeholders $1..$n, the value array holds their n values in that
\* order and then the id, and the WHERE clause binds $(n+1)
Aligned(n, columns, body, id) ==
    /\ Len(statement.updates) >= n
    /\ \A i \in 1..n :
           /\ statement.updates[i].param = i
           /\ statement.updates[i].column \in body.given
           /\ statement.values[i] = body[statement.updates[i].column]
    /\ \A i, j \in 1..n :
           i < j => \E k, l \in DOMAIN columns :
                       /\ k < l
                       /\ columns[k] = statement.updates[i].column
                       /\ columns[l] = statement.updates[j].column
    /\ Len(statement.values) = n + 1
    /\ statement.values[n + 1] = id
    /\ statement.where = n + 1

\* C22 as stated: for every non-empty set of given fields the statement of
\* an update handler is aligned with its value array, and its SET list
\* names no column that was not given.
C22_UpdateAligned ==
    (req.op = "update" /\ req.body.given # {}) =>
        LET resource == CHOOSE r \in UpdateResources : r.route = req.route
            n == Cardinality(req.body.given)
        IN  /\ Aligned(n, resource.columns, req.body, req.id)
            /\ \A i \in DOMAIN statement.updates :
                   statement.updates[i].column \in req.body.given

\* C22, amended: for every non-empty set of given fields the statement of an
\* update handler is aligned with its value array, and its SET list names
\* no column of the body that was not given; the customers and products
\* handlers add one more SET entry, updated_at = NOW(), which takes no
\* placeholder and no value, and the users handler adds none.
C22_UpdateAlignedStamped ==
    (req.op = "update" /\ req.body.given # {}) =>
        LET resource == CHOOSE r \in UpdateResources : r.route = req.route
            n == Cardinality(req.body.given)
        IN  /\ Aligned(n, resource.columns, req.body, req.id)
            /\ Len(statement.updates) = IF resource.stamped THEN n + 1 ELSE n
            /\ \A i \in DOMAIN statement.updates :
                   i > n => /\ statement.updates[i].column = "updated_at"
                            /\ statement.updates[i].param = 0

C22_Witness ==
    /\ req.op = "update"
    /\ req.route = "PATCH /customers/:id"
    /\ req.body.given = {"last_name", "phone"}
    /\ statement.where = 3
    /\ Len(statement.updates) = 3

\* C23: POST /users and PATCH /users/:id store the password as it was
\* received, and authenticate with the email and the password of a user
\* whose password was last written through them never replies 200 and never
\* sets a cookie: with the store reachable it replies 401 'Invalid
\* credentials'.
C23_PlaintextNeverSignsIn ==
    /\ (req.op = "resource" /\ req.route \in {"POST /users", "PATCH /users/:id"}
            /\ "password" \in req.body.given /\ reply.status \in {200, 201}) =>
           \E r \in users :
               /\ r.password = [plain |-> req.body.password]
               /\ r.password # BcryptHash(req.body.password)
               /\ IF req.route = "POST /users" THEN r.email = req.body.email
                                               ELSE r.id = req.id
    /\ (req.op = "authenticate"
            /\ \E r \in users : /\ r.email = req.body.email
                                 /\ r.password = [plain |-> req.body.password]) =>
           /\ reply.status # 200
           /\ reply.cookies = {}
           /\ req.pgUp =>
                  reply.status = 401 /\ reply.body = [error |-> "Invalid credentials"]

C23_Witness ==
    /\ req.op = "authenticate"
    /\ req.pgUp
    /\ req.body = [email |-> EveEmail, password |-> AnnPassword]
    /\ \E r \in users : r.email = EveEmail /\ r.id = "3"
                             /\ r.password = [plain |-> AnnPassword]
    /\ reply.status = 401

====
